---- MODULE Spec2Model ----
(***************************************************************************)
(* Model of train.py: the Trainer (forward, backward, buffered stats,      *)
(* parameter update) and the training control loop of main().             *)
(*                                                                         *)
(* Optional values (Python None) are sequences of length at most one:     *)
(* <<>> is None and <<v>> is the value v.                                  *)
(***************************************************************************)
EXTENDS Integers, Sequences, FiniteSets, TLC

VARIABLES
    args,           \* the resolved configuration (constant during a run)
    pc,             \* "prepare" | "main" | "loop" | "done" | "crashed" | "exited",
                    \* or "api" (direct Trainer calls)
    step,           \* state.step: the global step counter
    epoch,          \* state.epoch
    eval_scores,    \* state.eval_scores
    lr,             \* optimizer.get_lr()
    buffered,       \* trainer._buffered_stats, one record per buffered micro-batch
    grad,           \* window positions whose gradient is in the parameters' .grad
    meters,         \* trainer.meters: gnorm, clip, oom
    optSteps,       \* number of completed optimizer.step() calls
    itStep,         \* iterator.step: batches yielded so far
    itStepInEpoch,  \* iterator.step_in_epoch: batches yielded in the current epoch
    last,           \* locals and result of the last Trainer call
    trace,          \* collaborator calls made by the last iteration of the loop in main
    seed,           \* the seed last handed to set_seed
    ckpt,           \* the latest checkpoint in the model directory
    state_dict,     \* what prepare() loaded from the checkpoint ({} is None)
    exit_status,    \* the exit status of the process, once it has ended
    pargs,          \* get_train_iterator: its args and the number of CUDA devices
    pipe,           \* the stages and limits get_train_iterator built
    emitted,        \* stream positions of the records that left the shuffle stage
    lastrec,        \* the record that met the length filter last
    queue,          \* the sort cache: records awaiting batching, in arrival order
    batch,          \* the batch cut last
    layers,         \* prepare: cli_args, config_args, model_args, default_args
    resolved        \* prepare: the local `args` as the override chain builds it

vars == <<args, pc, step, epoch, eval_scores, lr, buffered, grad, meters, optSteps,
          itStep, itStepInEpoch, last, trace, seed, ckpt, state_dict, exit_status,
          pargs, pipe, emitted, lastrec, queue, batch, layers, resolved>>

trainerVars == <<buffered, grad, meters, optSteps, last>>
progressVars == <<step, epoch, eval_scores, lr>>
processVars == <<seed, ckpt, state_dict, exit_status>>
pipeVars == <<pargs, pipe, emitted, lastrec, queue, batch>>
prepVars == <<layers, resolved>>
mainVars == <<args, step, epoch, eval_scores, lr, buffered, grad, meters, optSteps,
              itStep, itStepInEpoch, last, trace, seed, ckpt, state_dict, exit_status>>

-----------------------------------------------------------------------------
(* Bounds of the model *)

MaxAccumulate == 2      \* args.accumulate ranges over 1..MaxAccumulate
MaxStepArg == 2         \* args.max_step is 0 (unset) or MaxStepArg
MaxEpochArg == 2        \* args.max_epoch is 0 (unset) or MaxEpochArg
EvalStepsArg == 2       \* args.eval_steps is 1 or EvalStepsArg
EpochLen == 2           \* batches the training stream yields per epoch
MaxBatches == 3         \* cap on iterator.step
MaxSample == 2          \* ntokens of a batch ranges over 1..MaxSample
MaxScore == 2           \* a validation score ranges over 1..MaxScore
MaxLr == 1              \* the learning rate ranges over 0..MaxLr
MaxCalls == 3           \* cap on the number of direct Trainer calls
SeedArg == 1            \* args.seed
SaveStepsArg == 1       \* args.save_checkpoint_steps

(* math.inf of `args.max_epoch or math.inf` *)
Inf == 1000000

None == <<>>
Some(v) == <<v>>

Outcomes == {"ok", "oom", "err"}       \* of the criterion / of loss.backward()
UpdateOutcomes == {"ok", "overflow"}   \* of the rescale-clip-step part

(* loss.backward() runs only on a loss, the update part only when asked for *)
BackwardOutcomes(fo) == IF fo = "ok" THEN Outcomes ELSE {"ok"}
UpdateOutcomesOf(update_params, fo, bo) ==
    IF update_params /\ fo # "err" /\ bo # "err" THEN UpdateOutcomes ELSE {"ok"}
Scores == 1..MaxScore
LrLevels == 0..MaxLr
MinLrArg == 0               \* the floor args.min_lr, when one is configured

(* the variables of get_train_iterator and of prepare's override chain while *)
(* another part of the program is looked at                                  *)
NoPipeline ==
    /\ pargs = None
    /\ pipe = None
    /\ emitted = {}
    /\ lastrec = None
    /\ queue = <<>>
    /\ batch = <<>>

NoLayers ==
    /\ layers = None
    /\ resolved = None

RECURSIVE SumSeq(_)
SumSeq(s) == IF s = <<>> THEN 0 ELSE Head(s) + SumSeq(Tail(s))

-----------------------------------------------------------------------------
(* Trainer *)

EmptyMeters == [gnorm |-> 0, clip |-> 0, oom |-> [count |-> 0, sum |-> 0]]

(* `last`: the last Trainer call. op: which method; update_params, eval: its  *)
(* flags; fo: how the criterion ended ("none": not invoked); loss: the loss   *)
(* _forward returned; backward: loss.backward() was invoked; entry: what was   *)
(* appended to the buffer; window: the stats gathered at lines 203-206; denom: *)
(* the value of grad_denom; applied: the window positions whose gradient was   *)
(* in .grad at optimizer.step(); overflow: OverflowError was caught; ret: the  *)
(* value returned; raised: an exception left the call.                        *)
NoCall == [op |-> "none", update_params |-> FALSE, eval |-> FALSE, fo |-> "none",
           loss |-> None, backward |-> FALSE, entry |-> None, window |-> <<>>,
           denom |-> None, applied |-> None, overflow |-> FALSE, ret |-> None,
           raised |-> FALSE]

(* The criterion's sample size for a batch: its target-token count. *)
CriterionSampleSize(sample) == sample[1]

(* faulty variant: an out-of-memory error is absorbed in evaluation mode too *)
ForwardAbsorbsInEval(sample, eval, fo) ==
    LET logging_output == [ntokens |-> IF sample # None THEN sample[1] ELSE 0]
    IN  IF sample = None
        THEN [loss |-> None, sample_size |-> 0, logging_output |-> logging_output,
              oom |-> 0, raised |-> FALSE]
        ELSE IF fo = "ok"
        THEN [loss |-> Some(sample[1]), sample_size |-> sample[1],
              logging_output |-> logging_output, oom |-> 0, raised |-> FALSE]
        ELSE IF fo = "oom"
        THEN [loss |-> None, sample_size |-> 0, logging_output |-> logging_output,
              oom |-> 1, raised |-> FALSE]
        ELSE [loss |-> None, sample_size |-> 0, logging_output |-> logging_output,
              oom |-> 0, raised |-> TRUE]

(* Trainer._forward(sample, eval) where the criterion ends as `fo`. *)
Forward(sample, eval, fo) ==
    LET logging_output == [ntokens |-> IF sample # None THEN sample[1] ELSE 0]
    IN  IF sample = None
        THEN [loss |-> None, sample_size |-> 0, logging_output |-> logging_output,
              oom |-> 0, raised |-> FALSE]
        ELSE IF fo = "ok"
        THEN [loss |-> Some(sample[1]), sample_size |-> CriterionSampleSize(sample),
              logging_output |-> logging_output, oom |-> 0, raised |-> FALSE]
        ELSE IF fo = "oom" /\ ~eval
        THEN [loss |-> None, sample_size |-> 0, logging_output |-> logging_output,
              oom |-> 1, raised |-> FALSE]
        ELSE [loss |-> None, sample_size |-> 0, logging_output |-> logging_output,
              oom |-> 0, raised |-> TRUE]

(* faulty variant: a pass skipped for want of a loss is recorded as an OOM *)
BackwardCountsSkipped(loss, bo, g, pos) ==
    IF loss = None
    THEN [oom |-> 1, grad |-> g, raised |-> FALSE, ran |-> FALSE]
    ELSE IF bo = "ok"
    THEN [oom |-> 0, grad |-> g \cup {pos}, raised |-> FALSE, ran |-> TRUE]
    ELSE IF bo = "oom"
    THEN [oom |-> 1, grad |-> {}, raised |-> FALSE, ran |-> TRUE]
    ELSE [oom |-> 0, grad |-> g, raised |-> TRUE, ran |-> TRUE]

(* Trainer._backward(loss) where loss.backward() ends as `bo`; `g` is the     *)
(* accumulated gradient and `pos` the window position of this micro-batch.   *)
Backward(loss, bo, g, pos) ==
    IF loss = None
    THEN [oom |-> 0, grad |-> g, raised |-> FALSE, ran |-> FALSE]
    ELSE IF bo = "ok"
    THEN [oom |-> 0, grad |-> g \cup {pos}, raised |-> FALSE, ran |-> TRUE]
    ELSE IF bo = "oom"
    THEN [oom |-> 1, grad |-> {}, raised |-> FALSE, ran |-> TRUE]
    ELSE [oom |-> 0, grad |-> g, raised |-> TRUE, ran |-> TRUE]

(* faulty variant: only forward OOMs count as failures *)
AllFailedFwdOnly(stats) ==
    Cardinality({i \in 1..Len(stats) : stats[i].oom_fwd > 0}) = Len(stats)

(* line 208-209: every buffered micro-batch recorded an OOM *)
AllFailed(stats) ==
    Cardinality({i \in 1..Len(stats) : stats[i].oom_fwd + stats[i].oom_bwd > 0})
        = Len(stats)

(* criterion.grad_denom(sample_sizes) *)
GradDenom(sample_sizes) == SumSeq(sample_sizes)

SampleSizes(stats) == [i \in 1..Len(stats) |-> stats[i].sample_size]

(* criterion.aggregate_logging_outputs(logging_outputs) *)
AggregateLoggingOutputs(stats) ==
    [ntokens |-> SumSeq([i \in 1..Len(stats) |-> stats[i].logging_output.ntokens])]

(* The update branch of train_step (lines 201-241), `uo` its outcome. *)
UpdateParams(stats, g, m, o, call, uo) ==
    IF AllFailed(stats)
    THEN [buffered |-> <<>>, grad |-> g, meters |-> m, optSteps |-> o,
          last |-> [call EXCEPT !.window = stats, !.ret = None]]
    ELSE LET ooms_fwd == SumSeq([i \in 1..Len(stats) |-> stats[i].oom_fwd])
             ooms_bwd == SumSeq([i \in 1..Len(stats) |-> stats[i].oom_bwd])
             agg == AggregateLoggingOutputs(stats)
             grad_denom == GradDenom(SampleSizes(stats))
             done == [call EXCEPT !.window = stats, !.denom = Some(grad_denom),
                                  !.ret = Some(agg)]
         IN  IF uo = "ok"
             THEN [buffered |-> <<>>, grad |-> {},
                   meters |-> [gnorm |-> m.gnorm + 1, clip |-> m.clip + 1,
                               oom |-> [count |-> m.oom.count + 1,
                                        sum |-> m.oom.sum + ooms_fwd + ooms_bwd]],
                   optSteps |-> o + 1, last |-> [done EXCEPT !.applied = Some(g)]]
             ELSE [buffered |-> <<>>, grad |-> {}, meters |-> m, optSteps |-> o,
                   last |-> [done EXCEPT !.overflow = TRUE]]

(* faulty variant: the update_params flag is ignored and the update runs anyway *)
BufferOnlyUpdates(stats, g, m, o, call) == UpdateParams(stats, g, m, o, call, "ok")

(* The buffering branch's result (line 243). *)
BufferOnly(stats, g, m, o, call) ==
    [buffered |-> stats, grad |-> g, meters |-> m, optSteps |-> o,
     last |-> [call EXCEPT !.ret = None]]

(* Trainer.train_step(sample, update_params): the new trainer state. *)
TrainStep(sample, update_params, fo, bo, uo) ==
    LET f == Forward(sample, FALSE, fo)
        b == Backward(f.loss, bo, grad, Len(buffered) + 1)
        call == [NoCall EXCEPT !.op = "train_step", !.update_params = update_params,
                               !.fo = IF sample = None THEN "none" ELSE fo,
                               !.loss = f.loss]
    IN  IF f.raised
        THEN [buffered |-> buffered, grad |-> grad, meters |-> meters,
              optSteps |-> optSteps, last |-> [call EXCEPT !.raised = TRUE]]
        ELSE IF b.raised
        THEN [buffered |-> buffered, grad |-> b.grad, meters |-> meters,
              optSteps |-> optSteps,
              last |-> [call EXCEPT !.raised = TRUE, !.backward = TRUE]]
        ELSE LET entry == [sample_size |-> f.sample_size,
                           logging_output |-> f.logging_output,
                           oom_fwd |-> f.oom, oom_bwd |-> b.oom]
                 stats == Append(buffered, entry)
                 c == [call EXCEPT !.entry = Some(entry), !.backward = b.ran]
             IN  IF update_params
                 THEN UpdateParams(stats, b.grad, meters, optSteps, c, uo)
                 ELSE BufferOnly(stats, b.grad, meters, optSteps, c)

SetTrainer(r) ==
    /\ buffered' = r.buffered
    /\ grad' = r.grad
    /\ meters' = r.meters
    /\ optSteps' = r.optSteps
    /\ last' = r.last

-----------------------------------------------------------------------------
(* main: the training control loop *)

ArgsSet ==
    [accumulate : 1..MaxAccumulate,
     max_step   : {0, MaxStepArg},
     max_epoch  : {0, MaxEpochArg},
     min_lr     : {None, Some(MinLrArg)},
     eval_steps : {1, EvalStepsArg},
     seed       : {SeedArg},
     save_checkpoint_steps : {SaveStepsArg}]

max_epoch == IF args.max_epoch # 0 THEN args.max_epoch ELSE Inf
max_step == IF args.max_step # 0 THEN args.max_step ELSE Inf

(* faulty variant: the step limit is inclusive *)
PredicateInclusiveStep ==
    /\ (IF args.min_lr = None THEN TRUE ELSE lr > args.min_lr[1])
    /\ epoch < max_epoch
    /\ step <= max_step

(* the predicate handed to iterator.while_true *)
Predicate ==
    /\ (IF args.min_lr = None THEN TRUE ELSE lr > args.min_lr[1])
    /\ epoch < max_epoch
    /\ step < max_step

(* the batch the iterator yields next: its target-token count *)
NextBatch == Some((itStepInEpoch % MaxSample) + 1)

HasNext == itStepInEpoch < EpochLen

(* next(epoch_iter) yielding a batch; before_epoch runs with an epoch's first *)
Yield ==
    /\ itStep' = itStep + 1
    /\ itStepInEpoch' = itStepInEpoch + 1

YieldTrace == IF itStepInEpoch = 0 THEN <<<<"before_epoch", epoch + 1, 0>>>> ELSE <<>>

(* line 526: this batch only accumulates *)
Accumulating == (step + 1) % args.accumulate > 0

(* the metric line 498-499 hands to trainer.lr_step *)
LrStepMetric(scores) ==
    LET eval_score == 0 - scores[Len(scores)]
    IN  0 - eval_score

(* faulty variant: the seed follows the batches read, not the global step *)
ReseedByBatch(base, st, it) == base + it

(* line 478: the seed reseed() sets, args.seed + state.step *)
Reseed(base, st, it) == base + st

(* line 626 *)
resume == state_dict # None

(* what State.state_dict() holds of the run *)
StateDict(st, ep, sc, l, it, itE) ==
    [step |-> st, epoch |-> ep, eval_scores |-> sc, lr |-> l,
     itStep |-> it, itStepInEpoch |-> itE]

(* State.try_save: the step trigger, the global-step delta since the last    *)
(* save reaching args.save_checkpoint_steps                                   *)
SaveDue(disk, st) ==
    st - (IF disk = None THEN 0 ELSE disk[1].step) >= args.save_checkpoint_steps

(* how the checkpoint lookup and load of lines 618-623 can end *)
LoadOutcomes(disk) == IF disk = None THEN {"not_found", "err"} ELSE {"ok", "err"}

(* faulty variant: every failure of the load is taken for a missing checkpoint *)
LoadStateCatchAll(disk, lo) ==
    IF lo = "ok"
    THEN [state_dict |-> disk, raised |-> FALSE]
    ELSE [state_dict |-> None, raised |-> FALSE]

(* lines 618-625: try: Loader.load_state(...) except FileNotFoundError: {} *)
LoadState(disk, lo) ==
    IF lo = "ok"
    THEN [state_dict |-> disk, raised |-> FALSE]
    ELSE IF lo = "not_found"
    THEN [state_dict |-> None, raised |-> FALSE]
    ELSE [state_dict |-> None, raised |-> TRUE]

Init ==
    /\ args \in ArgsSet
    /\ pc = "prepare"
    /\ step = 0
    /\ epoch = 0
    /\ eval_scores = <<>>
    /\ lr = 0
    /\ buffered = <<>>
    /\ grad = {}
    /\ meters = EmptyMeters
    /\ optSteps = 0
    /\ itStep = 0
    /\ itStepInEpoch = 0
    /\ last = NoCall
    /\ trace = <<>>
    /\ seed = None
    /\ ckpt = None
    /\ state_dict = None
    /\ exit_status = None
    /\ NoPipeline
    /\ NoLayers

(* line 677, prepare(): the checkpoint is looked up and loaded; an exception  *)
(* prepare() lets through is outside the try of line 697 and ends the process *)
Prepare ==
    /\ UNCHANGED <<pipeVars, prepVars>>
    /\ pc = "prepare"
    /\ \E lo \in LoadOutcomes(ckpt) :
        LET r == LoadState(ckpt, lo)
        IN  /\ state_dict' = r.state_dict
            /\ trace' = <<<<"load_state_" \o lo, 0, 0>>>>
            /\ IF r.raised
               THEN pc' = "exited" /\ exit_status' = Some(1)
               ELSE pc' = "main" /\ exit_status' = exit_status
    /\ UNCHANGED <<args, progressVars, trainerVars, itStep, itStepInEpoch, seed, ckpt>>

(* main() up to the loop, lines 407-501: set_seed, a new trainer, the state   *)
(* restored from state_dict, reseed()                                        *)
MainStart ==
    /\ UNCHANGED <<pipeVars, prepVars>>
    /\ pc = "main"
    /\ IF resume
       THEN /\ step' = state_dict[1].step
            /\ epoch' = state_dict[1].epoch
            /\ eval_scores' = state_dict[1].eval_scores
            /\ lr' = state_dict[1].lr
            /\ itStep' = state_dict[1].itStep
            /\ itStepInEpoch' = state_dict[1].itStepInEpoch
       ELSE /\ step' = 0
            /\ epoch' = 0
            /\ eval_scores' = <<>>
            /\ lr' \in LrLevels
            /\ itStep' = 0
            /\ itStepInEpoch' = 0
    /\ seed' = Some(Reseed(args.seed, step', itStep'))
    /\ trace' = <<<<"set_seed", args.seed, 0>>, <<"load_state_dict", 0, 0>>,
                  <<"set_seed", seed'[1], 0>>>>
    /\ buffered' = <<>>
    /\ grad' = {}
    /\ meters' = EmptyMeters
    /\ optSteps' = 0
    /\ last' = NoCall
    /\ pc' = "loop"
    /\ UNCHANGED <<args, ckpt, state_dict, exit_status>>

(* lines 512-529: reseed(); train_step(sample, update_params=False); continue *)
LoopBuffer ==
    /\ UNCHANGED <<pipeVars, prepVars>>
    /\ pc = "loop"
    /\ Predicate
    /\ HasNext
    /\ itStep < MaxBatches
    /\ Accumulating
    /\ \E fo \in Outcomes : \E bo \in BackwardOutcomes(fo) :
        LET r == TrainStep(NextBatch, FALSE, fo, bo, "ok")
        IN  /\ SetTrainer(r)
            /\ Yield
            /\ pc' = IF r.last.raised THEN "crashed" ELSE "loop"
            /\ trace' = YieldTrace \o <<<<"train_step", 0, 0>>>>
            /\ seed' = Some(Reseed(args.seed, step, itStep))
            /\ UNCHANGED <<args, step, epoch, eval_scores, lr, ckpt, state_dict,
                           exit_status>>

(* lines 512-568: reseed(); train_step(sample, update_params=True) and what   *)
(* follows; try_save writes a checkpoint when its step trigger fires          *)
LoopUpdate ==
    /\ UNCHANGED <<pipeVars, prepVars>>
    /\ pc = "loop"
    /\ Predicate
    /\ HasNext
    /\ itStep < MaxBatches
    /\ ~Accumulating
    /\ \E fo \in Outcomes : \E bo \in BackwardOutcomes(fo) :
       \E uo \in UpdateOutcomesOf(TRUE, fo, bo) :
        LET r == TrainStep(NextBatch, TRUE, fo, bo, uo)
            t0 == YieldTrace \o <<<<"train_step", 1, 0>>>>
            total_steps == step + 1
            evaluating == total_steps % args.eval_steps = 0
        IN  /\ SetTrainer(r)
            /\ Yield
            /\ seed' = Some(Reseed(args.seed, step, itStep))
            /\ UNCHANGED <<args, epoch, state_dict, exit_status>>
            /\ IF r.last.raised
               THEN /\ pc' = "crashed"
                    /\ trace' = t0
                    /\ UNCHANGED <<step, eval_scores, lr, ckpt>>
               ELSE IF r.last.ret = None
               THEN /\ pc' = "loop"
                    /\ trace' = t0
                    /\ UNCHANGED <<step, eval_scores, lr, ckpt>>
               ELSE \E newlr \in LrLevels :
                    \E val_score \in (IF evaluating THEN Scores ELSE {1}) :
                    LET saved == SaveDue(ckpt, total_steps) IN
                    /\ pc' = "loop"
                    /\ step' = total_steps
                    /\ lr' = newlr
                    /\ eval_scores' = IF evaluating THEN Append(eval_scores, val_score)
                                      ELSE eval_scores
                    /\ ckpt' = IF saved
                               THEN Some(StateDict(step', epoch, eval_scores', lr',
                                                   itStep', itStepInEpoch'))
                               ELSE ckpt
                    /\ trace' = t0 \o <<<<"increase_num_steps", 0, 0>>,
                                        <<"lr_step_update", total_steps, 0>>>>
                                   \o (IF evaluating
                                       THEN <<<<"evaluate", 0, 0>>,
                                              <<"add_valid_score", val_score, 0>>>>
                                       ELSE <<>>)
                                   \o <<<<"try_save", IF saved THEN 1 ELSE 0, 0>>>>

(* next(epoch_iter) on an exhausted epoch: after_epoch_callback, lines 489-499 *)
EpochEnd ==
    /\ UNCHANGED <<pipeVars, prepVars>>
    /\ pc = "loop"
    /\ Predicate
    /\ ~HasNext
    /\ \E newlr \in (IF eval_scores # <<>> THEN LrLevels ELSE {lr}) :
        /\ epoch' = epoch + 1
        /\ IF eval_scores # <<>>
           THEN /\ lr' = newlr
                /\ trace' = <<<<"after_epoch", 0, 0>>, <<"increase_epoch", 0, 0>>,
                              <<"lr_step", epoch + 1, LrStepMetric(eval_scores)>>>>
           ELSE /\ lr' = lr
                /\ trace' = <<<<"after_epoch", 0, 0>>, <<"increase_epoch", 0, 0>>>>
    /\ itStepInEpoch' = 0
    /\ UNCHANGED <<args, pc, step, eval_scores, itStep, trainerVars, processVars>>

(* the loop ends: the evaluation at the end of training, lines 570-578 *)
LoopExit ==
    /\ UNCHANGED <<pipeVars, prepVars>>
    /\ pc = "loop"
    /\ ~Predicate
    /\ \E val_score \in Scores :
        /\ eval_scores' = Append(eval_scores, val_score)
        /\ trace' = <<<<"evaluate", 0, 0>>, <<"add_valid_score", val_score, 0>>>>
    /\ pc' = "done"
    /\ UNCHANGED <<args, step, epoch, lr, itStep, itStepInEpoch, trainerVars,
                   processVars>>

(* lines 579-581: main returns and the script ends *)
MainReturn ==
    /\ UNCHANGED <<pipeVars, prepVars>>
    /\ pc = "done"
    /\ pc' = "exited"
    /\ exit_status' = Some(0)
    /\ trace' = <<<<"logger.info", 0, 0>>>>
    /\ UNCHANGED <<args, progressVars, trainerVars, itStep, itStepInEpoch, seed, ckpt,
                   state_dict>>

(* lines 697-700: except Exception: logger.error(traceback.format_exc()), and *)
(* the script ends after the handler                                         *)
DriverCatch ==
    /\ UNCHANGED <<pipeVars, prepVars>>
    /\ pc = "crashed"
    /\ pc' = "exited"
    /\ exit_status' = Some(0)
    /\ trace' = <<<<"logger.error", 0, 0>>>>
    /\ UNCHANGED <<args, progressVars, trainerVars, itStep, itStepInEpoch, seed, ckpt,
                   state_dict>>

(* the script is started again on the same model directory *)
Restart ==
    /\ UNCHANGED <<pipeVars, prepVars>>
    /\ pc = "exited"
    /\ ckpt # None
    /\ pc' = "prepare"
    /\ step' = 0
    /\ epoch' = 0
    /\ eval_scores' = <<>>
    /\ lr' = 0
    /\ buffered' = <<>>
    /\ grad' = {}
    /\ meters' = EmptyMeters
    /\ optSteps' = 0
    /\ itStep' = 0
    /\ itStepInEpoch' = 0
    /\ last' = NoCall
    /\ trace' = <<>>
    /\ seed' = None
    /\ state_dict' = None
    /\ exit_status' = None
    /\ UNCHANGED <<args, ckpt>>

Next ==
    \/ Prepare
    \/ MainStart
    \/ LoopBuffer
    \/ LoopUpdate
    \/ EpochEnd
    \/ LoopExit
    \/ MainReturn
    \/ DriverCatch
    \/ Restart

Spec == Init /\ [][Next]_vars

(* what the process does by itself once started: the single control thread    *)
(* runs prepare, main and the driver's handler to the end of the script       *)
Run ==
    \/ Prepare
    \/ MainStart
    \/ LoopBuffer
    \/ LoopUpdate
    \/ EpochEnd
    \/ LoopExit
    \/ MainReturn
    \/ DriverCatch

(* the same program, where a started process keeps running while it can *)
SpecLive == Init /\ [][Next]_vars /\ WF_vars(Run)

(* the variables of main while another part of the program is looked at *)
NoRun ==
    /\ args = [accumulate |-> 1, max_step |-> 0, max_epoch |-> 0, min_lr |-> None,
               eval_steps |-> 1, seed |-> SeedArg,
               save_checkpoint_steps |-> SaveStepsArg]
    /\ step = 0
    /\ epoch = 0
    /\ eval_scores = <<>>
    /\ lr = 0
    /\ buffered = <<>>
    /\ grad = {}
    /\ meters = EmptyMeters
    /\ optSteps = 0
    /\ itStep = 0
    /\ itStepInEpoch = 0
    /\ last = NoCall
    /\ trace = <<>>
    /\ seed = None
    /\ ckpt = None
    /\ state_dict = None
    /\ exit_status = None

-----------------------------------------------------------------------------
(* The Trainer called directly: any sequence of train_step and _forward calls *)

Samples == {None} \cup {Some(n) : n \in 1..MaxSample}

InitTrainer ==
    /\ args = [accumulate |-> 1, max_step |-> 0, max_epoch |-> 0, min_lr |-> None,
               eval_steps |-> 1, seed |-> SeedArg,
               save_checkpoint_steps |-> SaveStepsArg]
    /\ pc = "api"
    /\ step = 0
    /\ epoch = 0
    /\ eval_scores = <<>>
    /\ lr = MaxLr
    /\ buffered = <<>>
    /\ grad = {}
    /\ meters = EmptyMeters
    /\ optSteps = 0
    /\ itStep = 0
    /\ itStepInEpoch = 0
    /\ last = NoCall
    /\ trace = <<>>
    /\ seed = None
    /\ ckpt = None
    /\ state_dict = None
    /\ exit_status = None
    /\ NoPipeline
    /\ NoLayers

CallTrainStep ==
    /\ UNCHANGED <<pipeVars, prepVars>>
    /\ pc = "api"
    /\ itStep < MaxCalls
    /\ \E sample \in Samples, update_params \in BOOLEAN :
       \E fo \in (IF sample = None THEN {"ok"} ELSE Outcomes) :
       \E bo \in BackwardOutcomes(fo) :
       \E uo \in UpdateOutcomesOf(update_params, fo, bo) :
        SetTrainer(TrainStep(sample, update_params, fo, bo, uo))
    /\ itStep' = itStep + 1
    /\ UNCHANGED <<args, pc, progressVars, itStepInEpoch, trace, processVars>>

CallForward ==
    /\ UNCHANGED <<pipeVars, prepVars>>
    /\ pc = "api"
    /\ itStep < MaxCalls
    /\ \E sample \in Samples, eval \in BOOLEAN :
       \E fo \in (IF sample = None THEN {"ok"} ELSE Outcomes) :
        LET f == Forward(sample, eval, fo)
        IN  last' = [NoCall EXCEPT !.op = "_forward", !.eval = eval,
                                   !.fo = IF sample = None THEN "none" ELSE fo,
                                   !.loss = f.loss,
                                   !.raised = f.raised,
                                   !.entry = IF f.raised THEN None
                                             ELSE Some([sample_size |-> f.sample_size,
                                                        logging_output |-> f.logging_output,
                                                        oom_fwd |-> f.oom, oom_bwd |-> 0]),
                                   !.ret = IF f.raised THEN None ELSE f.loss]
    /\ itStep' = itStep + 1
    /\ UNCHANGED <<args, pc, progressVars, buffered, grad, meters, optSteps,
                   itStepInEpoch, trace, processVars>>

NextTrainer == CallTrainStep \/ CallForward

SpecTrainer == InitTrainer /\ [][NextTrainer]_vars

-----------------------------------------------------------------------------
(* get_train_iterator: the training pipeline *)

MaxBatchSize == 2       \* args.batch_size[0] is 1 or MaxBatchSize
PaddedArg == 2          \* args.batch_size[1], when a second value is given
MaxDevices == 2         \* torch.cuda.device_count() is 0, 1 or MaxDevices
ShuffleArg == 2         \* args.shuffle is -ShuffleArg, 0 or ShuffleArg
LimitArg == 0           \* args.length_limit is None, [LimitArg] or [LimitArg, LimitArg + 1]
SortFactorArg == 1      \* args.sort_buffer_factor
MaxRecords == 2         \* records in the training stream

(* n_src_tok and n_trg_tok of a record: the counts on either side of the limits *)
TokenCounts == (LimitArg + 1)..(LimitArg + 2)

PipeArgsSet ==
    [batch_size         : {<<b>> : b \in {1, MaxBatchSize}}
                            \cup {<<b, PaddedArg>> : b \in {1, MaxBatchSize}},
     batch_by_sentence  : BOOLEAN,
     shuffle            : {0 - ShuffleArg, 0, ShuffleArg},
     length_limit       : {None, <<LimitArg>>, <<LimitArg, LimitArg + 1>>},
     sort_buffer_factor : {SortFactorArg},
     device_count       : {0, 1, MaxDevices}]

(* torch.cuda.is_available() *)
CudaAvailable(a) == a.device_count > 0

(* faulty variant: the stage is inserted for positive windows only *)
ShuffleStagePositiveOnly(a) == IF a.shuffle > 0 THEN Some(a.shuffle) ELSE None

(* lines 318-321: the Shuffle stage and its shufsize, None when not inserted *)
ShuffleStage(a) == IF a.shuffle # 0 THEN Some(a.shuffle) ELSE None

(* lines 323-325: one configured limit is repeated for the two fields *)
Limit(a) ==
    IF a.length_limit # None /\ Len(a.length_limit) = 1
    THEN a.length_limit \o a.length_limit
    ELSE a.length_limit

(* faulty variant: the counts themselves are compared with the limits *)
WhereCount(x, limit) == x.n_src_tok <= limit[1] /\ x.n_trg_tok <= limit[2]

(* line 328: the predicate handed to ds.where *)
Where(x, limit) == x.n_src_tok - 1 <= limit[1] /\ x.n_trg_tok - 1 <= limit[2]

(* lines 339-341: None counts sentences *)
SampleSizeFn(a) == IF ~a.batch_by_sentence THEN "n_trg_tok" ELSE "none"

(* faulty variant: the device count is applied without the availability test *)
BatchSizeUnguarded(a) == a.batch_size[1] * a.device_count

(* lines 343, 348-349 *)
BatchSize(a) ==
    IF CudaAvailable(a) THEN a.batch_size[1] * a.device_count ELSE a.batch_size[1]

(* lines 344, 348-352 *)
PaddedSize(a) ==
    IF CudaAvailable(a) /\ Len(a.batch_size) > 1
    THEN Some(a.batch_size[2] * a.device_count)
    ELSE None

(* line 358 *)
CacheSize(a) ==
    (IF a.sort_buffer_factor > 1 THEN a.sort_buffer_factor ELSE 1) * BatchSize(a)

(* what get_train_iterator hands to Shuffle, where and Iterator *)
GetTrainIterator(a) ==
    [shuffle |-> ShuffleStage(a), limit |-> Limit(a), batch_size |-> BatchSize(a),
     padded_size |-> PaddedSize(a), cache_size |-> CacheSize(a),
     sample_size_fn |-> SampleSizeFn(a)]

(* the stream positions the next record to leave the shuffle stage can have: *)
(* without the stage the next position; with a window w > 0 any position not *)
(* yet emitted among the first (emitted + w); with w < 0 any not yet emitted *)
ShuffleEmits(stage, em) ==
    LET n == Cardinality(em)
        rest == (1..MaxRecords) \ em
    IN  IF stage = None THEN {n + 1}
        ELSE IF stage[1] > 0 THEN {i \in rest : i <= n + stage[1]}
        ELSE rest

(* the governing metric of a group of records under the sizing mode *)
SampleSize(xs, fn) ==
    IF fn = "n_trg_tok" THEN SumSeq([i \in 1..Len(xs) |-> xs[i].n_trg_tok])
    ELSE Len(xs)

RECURSIVE MaxTrg(_)
MaxTrg(xs) ==
    IF xs = <<>> THEN 0
    ELSE LET m == MaxTrg(Tail(xs))
         IN  IF Head(xs).n_trg_tok > m THEN Head(xs).n_trg_tok ELSE m

(* line 345-346: padded_size_fn *)
PaddedSizeFn(xs) == IF xs = <<>> THEN 0 ELSE MaxTrg(xs) * Len(xs)

RECURSIVE InsertByTrg(_, _)
InsertByTrg(x, s) ==
    IF s = <<>> THEN <<x>>
    ELSE IF x.n_trg_tok <= Head(s).n_trg_tok THEN <<x>> \o s
    ELSE <<Head(s)>> \o InsertByTrg(x, Tail(s))

(* line 363: sort_cache_by n_trg_tok *)
RECURSIVE SortCache(_)
SortCache(q) == IF q = <<>> THEN <<>> ELSE InsertByTrg(Head(q), SortCache(Tail(q)))

(* a group the Iterator may cut as one batch *)
Fits(xs, it) ==
    /\ SampleSize(xs, it.sample_size_fn) <= it.batch_size
    /\ IF it.padded_size = None THEN TRUE ELSE PaddedSizeFn(xs) <= it.padded_size[1]

(* the length of the prefix cut: the longest that fits, one record at least *)
CutLen(sorted, it) ==
    LET ks == {k \in 1..Len(sorted) : Fits(SubSeq(sorted, 1, k), it)}
    IN  IF ks = {} THEN 1 ELSE CHOOSE k \in ks : \A j \in ks : j <= k

CacheFull(q, it) == SampleSize(q, it.sample_size_fn) >= it.cache_size

InitPipeline ==
    /\ pargs \in PipeArgsSet
    /\ pipe = None
    /\ emitted = {}
    /\ lastrec = None
    /\ queue = <<>>
    /\ batch = <<>>
    /\ pc = "build"
    /\ NoLayers
    /\ NoRun

(* get_train_iterator(args, ...), lines 298-368 *)
BuildIterator ==
    /\ pc = "build"
    /\ pipe' = Some(GetTrainIterator(pargs))
    /\ pc' = "fill"
    /\ UNCHANGED <<pargs, emitted, lastrec, queue, batch, mainVars, prepVars>>

(* one record goes through select(fn), the shuffle stage and the length      *)
(* filter, and into the sort cache if the filter lets it through             *)
ReadRecord ==
    /\ pc = "fill"
    /\ Cardinality(emitted) < MaxRecords
    /\ \E idx \in ShuffleEmits(pipe[1].shuffle, emitted) :
       \E s \in TokenCounts, t \in TokenCounts :
        LET x == [idx |-> idx, n_src_tok |-> s, n_trg_tok |-> t]
            admitted == IF pipe[1].limit = None THEN TRUE ELSE Where(x, pipe[1].limit)
            q == IF admitted THEN Append(queue, x) ELSE queue
            ended == Cardinality(emitted) + 1 = MaxRecords
        IN  /\ emitted' = emitted \cup {idx}
            /\ lastrec' = Some([rec |-> x, admitted |-> admitted])
            /\ queue' = q
            /\ pc' = IF q = <<>>
                     THEN (IF ended THEN "end" ELSE "fill")
                     ELSE IF CacheFull(q, pipe[1]) THEN "drain"
                     ELSE IF ended THEN "drain" ELSE "fill"
    /\ UNCHANGED <<pargs, pipe, batch, mainVars, prepVars>>

(* the Iterator sorts the cache and cuts the next batch off it *)
CutBatch ==
    /\ pc = "drain"
    /\ LET sorted == SortCache(queue)
           b == SubSeq(sorted, 1, CutLen(sorted, pipe[1]))
           taken == {b[i].idx : i \in 1..Len(b)}
           q == SelectSeq(queue, LAMBDA x : x.idx \notin taken)
       IN  /\ batch' = b
           /\ queue' = q
           /\ pc' = IF q # <<>> THEN "drain"
                    ELSE IF Cardinality(emitted) = MaxRecords THEN "end" ELSE "fill"
    /\ UNCHANGED <<pargs, pipe, emitted, lastrec, mainVars, prepVars>>

NextPipeline == BuildIterator \/ ReadRecord \/ CutBatch

SpecPipeline == InitPipeline /\ [][NextPipeline]_vars

-----------------------------------------------------------------------------
(* prepare: the override chain that resolves the configuration *)

NumKeys == 2            \* configuration keys are 1..NumKeys

Keys == 1..NumKeys

(* A Namespace is a function from the keys to optional values (an attribute   *)
(* that is absent counts as None); a layer that does not exist is None. Each  *)
(* layer writes a value of its own, so a resolved value names its layer.      *)
Namespaces(v) == [Keys -> {None, Some(v)}]

LayersSet ==
    [cli_args     : Namespaces(0),
     config_args  : {None} \cup {Some(n) : n \in Namespaces(1)},
     model_args   : {None} \cup {Some(n) : n \in Namespaces(2)},
     default_args : Namespaces(3)]

(* faulty variant: only_override_null is taken as true whatever is passed *)
OverrideNullOnly(config_to, config_from, only_override_null) ==
    IF config_from = None THEN config_to
    ELSE IF config_to = None THEN config_from
    ELSE Some([k \in Keys |->
                 IF config_to[1][k] = None THEN config_from[1][k]
                 ELSE config_to[1][k]])

(* override(config_to, config_from, only_override_null), lines 40-62 *)
Override(config_to, config_from, only_override_null) ==
    IF config_from = None THEN config_to
    ELSE IF config_to = None THEN config_from
    ELSE Some([k \in Keys |->
                 LET v == config_from[1][k]
                 IN  IF v = None THEN config_to[1][k]
                     ELSE IF only_override_null
                     THEN (IF config_to[1][k] = None THEN v ELSE config_to[1][k])
                     ELSE v])

InitPrepare ==
    /\ layers \in LayersSet
    /\ resolved = None
    /\ pc = "line631"
    /\ NoPipeline
    /\ NoRun

(* line 631: args = override(config_args, cli_args, False) *)
OverrideConfigByCli ==
    /\ pc = "line631"
    /\ resolved' = Override(layers.config_args, Some(layers.cli_args), FALSE)
    /\ pc' = "line632"
    /\ UNCHANGED <<layers, mainVars, pipeVars>>

(* line 632: args = override(model_args, args, False) *)
OverrideModelByArgs ==
    /\ pc = "line632"
    /\ resolved' = Override(layers.model_args, resolved, FALSE)
    /\ pc' = "line633"
    /\ UNCHANGED <<layers, mainVars, pipeVars>>

(* line 633: args = override(default_args, args, False) *)
OverrideDefaultsByArgs ==
    /\ pc = "line633"
    /\ resolved' = Override(Some(layers.default_args), resolved, FALSE)
    /\ pc' = "line639"
    /\ UNCHANGED <<layers, mainVars, pipeVars>>

(* lines 635, 639: the second parse of the same command line, and            *)
(* args = override(args, cli_args, False)                                    *)
OverrideArgsByCli ==
    /\ pc = "line639"
    /\ resolved' = Override(resolved, Some(layers.cli_args), FALSE)
    /\ pc' = "line640"
    /\ UNCHANGED <<layers, mainVars, pipeVars>>

(* line 640: args = override(default_args, args, False) *)
OverrideDefaultsAgain ==
    /\ pc = "line640"
    /\ resolved' = Override(Some(layers.default_args), resolved, FALSE)
    /\ pc' = "resolved"
    /\ UNCHANGED <<layers, mainVars, pipeVars>>

NextPrepare ==
    \/ OverrideConfigByCli
    \/ OverrideModelByArgs
    \/ OverrideDefaultsByArgs
    \/ OverrideArgsByCli
    \/ OverrideDefaultsAgain

SpecPrepare == InitPrepare /\ [][NextPrepare]_vars

-----------------------------------------------------------------------------
(* Properties *)

(* a step of main's loop that called train_step *)
LoopCalledTrainStep == pc = "loop" /\ itStep' = itStep + 1

(* the window train_step sees after appending this call's entry *)
WindowAfterCall == Append(buffered, last'.entry[1])

HasOom(e) == e.oom_fwd + e.oom_bwd > 0

TraceOps(t) == {t[i][1] : i \in 1..Len(t)}

(* C1: in main's loop the k-th call of train_step has update_params = true    *)
(* exactly when k is a multiple of args.accumulate.                           *)
C1_UpdateEveryNthCall ==
    (pc = "loop" /\ last.op = "train_step")
        => (last.update_params <=> (itStep % args.accumulate = 0))

(* C2: when train_step performs an update, the gradient denominator is the    *)
(* sum of the sample sizes of the buffered micro-batches that had no OOM,     *)
(* forward or backward.                                                       *)
C2_DenomIsNonOomSum ==
    (last.op = "train_step" /\ last.denom # None)
        => last.denom[1] =
             SumSeq([i \in 1..Len(last.window) |->
                        IF HasOom(last.window[i]) THEN 0
                        ELSE last.window[i].sample_size])

(* C3: an update call whose window holds only micro-batches that recorded an  *)
(* OOM is a dropped step: buffer cleared, null returned, no optimizer step,   *)
(* meters unchanged, and the loop advances neither the global step, the       *)
(* learning-rate schedule, the evaluation nor the save check.                 *)
C3_DroppedStep ==
    [][(/\ LoopCalledTrainStep
        /\ last'.update_params
        /\ ~last'.raised
        /\ \A i \in 1..Len(WindowAfterCall) : HasOom(WindowAfterCall[i]))
       => (/\ buffered' = <<>>
           /\ last'.ret = None
           /\ optSteps' = optSteps
           /\ meters' = meters
           /\ step' = step
           /\ lr' = lr
           /\ eval_scores' = eval_scores
           /\ TraceOps(trace') \cap {"increase_num_steps", "lr_step_update",
                                     "evaluate", "add_valid_score", "try_save"} = {}
           /\ pc' = "loop")]_vars

C3_Witness ==
    /\ pc = "loop"
    /\ last.op = "train_step"
    /\ last.update_params
    /\ last.window # <<>>
    /\ \A i \in 1..Len(last.window) : HasOom(last.window[i])
    /\ last.ret = None
    /\ optSteps >= 1

(* C4: an overflow during the parameter update zeroes the gradients, clears   *)
(* the buffer, and the loop does not advance the global step for it.          *)
C4_OverflowStepNotAdvanced ==
    [][(LoopCalledTrainStep /\ last'.overflow)
       => (/\ grad' = {}
           /\ buffered' = <<>>
           /\ pc' = "loop"
           /\ step' = step)]_vars

(* C5: a resource exhaustion of the forward pass in training mode is         *)
(* absorbed (one OOM-forward recorded, loss null, backward skipped, nothing   *)
(* raised); in evaluation mode it propagates, and so does any other failure   *)
(* in either mode.                                                            *)
C5_ForwardOomAbsorbedInTraining ==
    /\ (last.fo = "oom" /\ ~last.eval)
        => (/\ ~last.raised
            /\ last.loss = None
            /\ ~last.backward
            /\ last.entry # None
            /\ last.entry[1].oom_fwd = 1
            /\ last.entry[1].oom_bwd = 0)
    /\ (last.fo = "oom" /\ last.eval) => (last.raised /\ last.entry = None)
    /\ last.fo = "err" => (last.raised /\ last.entry = None)

C5_Witness ==
    /\ last.op = "train_step"
    /\ last.fo = "oom"
    /\ ~last.raised
    /\ Len(buffered) >= 2
    /\ buffered[Len(buffered)].oom_fwd = 1

(* a direct call of train_step that returned *)
ApiTrainStepReturned ==
    /\ pc = "api"
    /\ itStep' = itStep + 1
    /\ last'.op = "train_step"
    /\ ~last'.raised

(* C6: a train_step call with update_params = false returns null, appends     *)
(* exactly one entry (sample size, logging output, OOM-forward, OOM-backward) *)
(* to the buffer, takes no optimizer step, computes no gradient denominator   *)
(* and leaves the gnorm, clip and oom meters alone.                           *)
C6_BufferingCallOnlyAppends ==
    [][(ApiTrainStepReturned /\ ~last'.update_params)
       => (/\ last'.ret = None
           /\ Len(buffered') = Len(buffered) + 1
           /\ SubSeq(buffered', 1, Len(buffered)) = buffered
           /\ last'.entry = Some(buffered'[Len(buffered')])
           /\ DOMAIN buffered'[Len(buffered')]
                = {"sample_size", "logging_output", "oom_fwd", "oom_bwd"}
           /\ optSteps' = optSteps
           /\ meters' = meters
           /\ last'.denom = None
           /\ ~last'.overflow)]_vars

C6_Witness ==
    /\ pc = "api"
    /\ last.op = "train_step"
    /\ ~last.update_params
    /\ ~last.raised
    /\ last.ret = None
    /\ Len(buffered) >= 2
    /\ optSteps >= 1

(* C7: the buffer never holds more than args.accumulate entries.              *)
C7_BufferWithinWindow == Len(buffered) <= args.accumulate

(* C8: the global step grows by exactly one on every successful parameter     *)
(* update and on no other event, and right after each increase the schedule   *)
(* is updated with the new step and the save check is invoked once.           *)
C8_StepCountsSuccessfulUpdates ==
    [][/\ (step' # step) <=> (optSteps' = optSteps + 1)
       /\ (step' # step)
            => (/\ step' = step + 1
                /\ \E i \in 1..(Len(trace') - 1) :
                      /\ trace'[i] = <<"increase_num_steps", 0, 0>>
                      /\ trace'[i + 1] = <<"lr_step_update", step', 0>>
                /\ Cardinality({i \in 1..Len(trace') : trace'[i][1] = "try_save"}) = 1)
      ]_vars

(* the stopping predicate as the loop is said to use it *)
KeepsGoing ==
    /\ IF args.min_lr = None THEN TRUE ELSE lr > args.min_lr[1]
    /\ IF args.max_epoch = 0 THEN TRUE ELSE epoch < args.max_epoch
    /\ IF args.max_step = 0 THEN TRUE ELSE step < args.max_step

(* C9: the loop goes on exactly while (no learning-rate floor or lr > floor)  *)
(* and epoch < max-epoch and step < max-step: it leaves only when that is     *)
(* false, does nothing else when it is false, and starts no new epoch then.   *)
C9_LoopRunsWhilePredicate ==
    [][pc = "loop"
       => (/\ KeepsGoing => pc' # "done"
           /\ ~KeepsGoing => (pc' = "done" /\ itStep' = itStep /\ epoch' = epoch)
           /\ (itStepInEpoch = 0 /\ itStepInEpoch' = 1) => KeepsGoing)]_vars

C9_Witness ==
    /\ pc = "loop"
    /\ epoch = 1
    /\ itStepInEpoch = 1
    /\ step >= 1
    /\ Head(trace) = <<"before_epoch", 2, 0>>

(* C10: at every epoch end the epoch counter grows by one and, when a        *)
(* validation score exists, the scheduler is stepped with the new epoch and   *)
(* the negation of the most recent score.                                     *)
C10_EpochEndStepsScheduler ==
    [][(pc = "loop" /\ itStepInEpoch # 0 /\ itStepInEpoch' = 0)
       => (/\ epoch' = epoch + 1
           /\ eval_scores # <<>>
                => \E i \in 1..Len(trace') :
                      trace'[i] = <<"lr_step", epoch',
                                    0 - eval_scores[Len(eval_scores)]>>)]_vars

(* C11: before every call to train_step, and when main enters the loop, the   *)
(* seed is set to args.seed + the current global step, in a fresh run and in  *)
(* a run resumed from a checkpoint alike: the seed in force for a micro-batch *)
(* is a function of the seed base and the global step only.                   *)
C11_SeedIsBasePlusStep ==
    [][/\ LoopCalledTrainStep => seed' = Some(args.seed + step)
       /\ (pc = "main" /\ pc' = "loop") => seed' = Some(args.seed + step')]_vars

C11_Witness ==
    /\ resume
    /\ pc = "loop"
    /\ last.op = "train_step"
    /\ last.ret = None
    /\ ~last.raised
    /\ state_dict[1].step >= 1
    /\ step = state_dict[1].step
    /\ itStep > step
    /\ seed = Some(args.seed + step)

(* the governing metric of a batch: sentences when batch-by-sentence is set,  *)
(* target tokens otherwise                                                    *)
GoverningMetric(xs) ==
    IF pargs.batch_by_sentence THEN Len(xs)
    ELSE SumSeq([i \in 1..Len(xs) |-> xs[i].n_trg_tok])

(* C12, as stated: the limit under which batches are cut is the configured    *)
(* batch size B, so every batch's governing metric is <= B, except a batch of *)
(* one record.                                                                *)
C12_BatchWithinConfiguredLimit ==
    /\ pipe # None => pipe[1].batch_size = pargs.batch_size[1]
    /\ batch # <<>>
        => (GoverningMetric(batch) <= pargs.batch_size[1] \/ Len(batch) = 1)

(* the limit in force: B per CUDA device when CUDA is available, B otherwise *)
DeviceScaledLimit ==
    pargs.batch_size[1] * (IF pargs.device_count > 0 THEN pargs.device_count ELSE 1)

(* C12, amended: the limit under which batches are cut is B times the number  *)
(* of CUDA devices when CUDA is available and B otherwise, the sizing mode is *)
(* the sentence count exactly when batch-by-sentence is set, and every batch's *)
(* governing metric is within that limit, except a batch of one record.       *)
C12_BatchWithinDeviceScaledLimit ==
    /\ pipe # None
        => (/\ pipe[1].batch_size = DeviceScaledLimit
            /\ (pipe[1].sample_size_fn = "none") <=> pargs.batch_by_sentence)
    /\ batch # <<>>
        => (GoverningMetric(batch) <= DeviceScaledLimit \/ Len(batch) = 1)

C12_Witness ==
    /\ pargs.device_count = MaxDevices
    /\ pargs.batch_size = <<1>>
    /\ ~pargs.batch_by_sentence
    /\ Len(batch) = 2
    /\ GoverningMetric(batch) = 2
    /\ pc = "end"

(* C13: when the checkpoint lookup or load signals file-not-found, startup    *)
(* goes on with an empty loaded state and resume false, and main then starts  *)
(* from the fresh-start values; any other failure of the load leaves          *)
(* prepare() and ends the process.                                            *)
C13_MissingCheckpointStartsFresh ==
    [][/\ (pc = "prepare" /\ trace' = <<<<"load_state_not_found", 0, 0>>>>)
            => (pc' = "main" /\ state_dict' = None /\ ~resume' /\ exit_status' = None)
       /\ (pc = "prepare" /\ trace' = <<<<"load_state_err", 0, 0>>>>)
            => (pc' = "exited" /\ exit_status' # None /\ exit_status' # Some(0))
       /\ (pc = "main" /\ ~resume)
            => (/\ pc' = "loop"
                /\ step' = 0
                /\ epoch' = 0
                /\ eval_scores' = <<>>
                /\ itStep' = 0
                /\ itStepInEpoch' = 0
                /\ buffered' = <<>>)]_vars

C13_Witness ==
    /\ pc = "loop"
    /\ ckpt = None
    /\ ~resume
    /\ step = 0
    /\ itStep = 0
    /\ last = NoCall
    /\ trace[2] = <<"load_state_dict", 0, 0>>

(* C14: an exception that leaves the training run is caught by the top-level  *)
(* driver, its trace is logged, and the process then ends with a non-zero     *)
(* exit status.                                                               *)
C14_FatalErrorExitsNonZero ==
    [][pc = "crashed"
       => (/\ pc' = "exited"
           /\ trace' = <<<<"logger.error", 0, 0>>>>
           /\ exit_status' # None
           /\ exit_status' # Some(0))]_vars

(* what a layer, present or not, supplies for a key *)
Supplied(layer, k) == IF layer = None THEN None ELSE layer[1][k]

(* the value of the highest-priority layer that sets the key, in the order    *)
(* command line, configuration file, resumed model, defaults                  *)
HighestPriority(k) ==
    IF layers.cli_args[k] # None THEN layers.cli_args[k]
    ELSE IF Supplied(layers.config_args, k) # None THEN Supplied(layers.config_args, k)
    ELSE IF Supplied(layers.model_args, k) # None THEN Supplied(layers.model_args, k)
    ELSE layers.default_args[k]

(* C15: after the chain of line 631-633, and again after the second pass of   *)
(* lines 639-640, every key holds the non-null value of the highest-priority  *)
(* layer that sets it (command line > file > resumed model > defaults); a     *)
(* null in a higher layer never replaces a non-null value of a lower one.     *)
C15_PriorityChain ==
    pc \in {"line639", "resolved"}
        => (resolved # None /\ \A k \in Keys : resolved[1][k] = HighestPriority(k))

C15_Witness ==
    /\ pc = "resolved"
    /\ layers.cli_args[1] = None
    /\ Supplied(layers.config_args, 1) = Some(1)
    /\ Supplied(layers.model_args, 1) = Some(2)
    /\ resolved[1][1] = Some(1)
    /\ layers.cli_args[2] = None
    /\ Supplied(layers.config_args, 2) = None
    /\ layers.model_args # None
    /\ Supplied(layers.model_args, 2) = Some(2)
    /\ layers.default_args[2] = Some(3)
    /\ resolved[1][2] = Some(2)

(* records have reached the length filter, and the sort cache, in stream order *)
InStreamOrder ==
    /\ emitted = 1..Cardinality(emitted)
    /\ \A i \in 1..Len(queue) : \A j \in 1..Len(queue) :
          i < j => queue[i].idx < queue[j].idx

(* C16, as stated: for a shuffle window of 0 or less no shuffle stage is      *)
(* inserted and records reach batching in stream order; a stage is inserted   *)
(* only for a positive window.                                                *)
C16_NoShuffleStageUnlessPositive ==
    pipe # None
        => (/\ pargs.shuffle <= 0 => (pipe[1].shuffle = None /\ InStreamOrder)
            /\ pipe[1].shuffle # None => pargs.shuffle > 0)

(* C16, amended: a shuffle stage is inserted exactly when the window is not   *)
(* 0, negative windows included, and its size is the configured window; with  *)
(* a window of 0 there is no stage and records reach batching in stream order. *)
C16_ShuffleStageUnlessZero ==
    pipe # None
        => (/\ pargs.shuffle = 0 => (pipe[1].shuffle = None /\ InStreamOrder)
            /\ pargs.shuffle # 0 => pipe[1].shuffle = Some(pargs.shuffle))

C16_Witness ==
    /\ pipe # None
    /\ pargs.shuffle < 0
    /\ pipe[1].shuffle = Some(pargs.shuffle)
    /\ lastrec # None
    /\ Len(queue) = 1

(* the configured limit of the source field and of the target field; one     *)
(* configured value is the limit of both                                      *)
SourceLimit == pargs.length_limit[1]
TargetLimit == pargs.length_limit[Len(pargs.length_limit)]

(* a step in which a record met the length filter *)
RecordFiltered == pc = "fill" /\ emitted' # emitted

(* C17, as stated: a record reaches batching if and only if its source token  *)
(* count is <= the source limit and its target token count is <= the target   *)
(* limit; every longer record is filtered out.                                *)
C17_LimitsAreInclusiveMaxima ==
    [][(RecordFiltered /\ pargs.length_limit # None)
       => LET x == lastrec'[1].rec
          IN  IF x.n_src_tok <= SourceLimit /\ x.n_trg_tok <= TargetLimit
              THEN queue' = Append(queue, x)
              ELSE queue' = queue]_vars

(* C17, amended: with limits configured, a record reaches batching if and     *)
(* only if its source token count less one is <= the source limit and its     *)
(* target token count less one is <= the target limit (one configured value   *)
(* is the limit of both fields); without limits every record reaches it.      *)
C17_LimitsBoundCountLessOne ==
    [][RecordFiltered
       => LET x == lastrec'[1].rec
          IN  IF pargs.length_limit = None
              THEN queue' = Append(queue, x)
              ELSE IF x.n_src_tok - 1 <= SourceLimit /\ x.n_trg_tok - 1 <= TargetLimit
              THEN queue' = Append(queue, x)
              ELSE queue' = queue]_vars

C17_Witness ==
    /\ pargs.length_limit = <<LimitArg, LimitArg + 1>>
    /\ Len(queue) = 1
    /\ queue[1].n_src_tok = LimitArg + 1
    /\ queue[1].n_trg_tok = LimitArg + 2
    /\ lastrec # None
    /\ ~lastrec[1].admitted
    /\ lastrec[1].rec.n_src_tok = LimitArg + 2
    /\ lastrec[1].rec.n_trg_tok = LimitArg + 1

(* C18: at the optimizer step of a window the applied gradient is the sum of  *)
(* the gradients of exactly the buffered micro-batches that recorded no OOM,  *)
(* those that succeeded before a backward OOM of the same window included.    *)
C18_BackwardOomDropsOnlyItsOwnGradient ==
    (last.op = "train_step" /\ last.applied # None)
        => last.applied[1] =
             {i \in 1..Len(last.window) :
                 /\ ~HasOom(last.window[i])
                 /\ last.window[i].logging_output.ntokens > 0}

(* nothing has failed in the last call: no OOM, no overflow, no exception,    *)
(* and the checkpoint load did not fail                                       *)
NoFailure ==
    /\ ~last.raised
    /\ ~last.overflow
    /\ last.entry # None => ~HasOom(last.entry[1])
    /\ exit_status # Some(1)

C19_StalledWindow ==
    (args.accumulate > 1 /\ ckpt = None) => step = 0

(* C20: inside the loop an evaluation is run exactly on the successful        *)
(* parameter updates whose new global step is a multiple of args.eval_steps,  *)
(* and exactly once when the loop has ended; an evaluation appends exactly    *)
(* one score to the validation-score list, and no other step of the loop      *)
(* changes the list.                                                          *)
C20_EvaluationOnSuccessfulUpdates ==
    [][pc = "loop"
       => LET evaluations == {i \in 1..Len(trace') : trace'[i][1] = "evaluate"}
          IN  /\ pc' # "done"
                   => ((evaluations # {})
                          <=> (/\ optSteps' = optSteps + 1
                               /\ step' = step + 1
                               /\ step' % args.eval_steps = 0))
              /\ pc' = "done" => Cardinality(evaluations) = 1
              /\ Cardinality(evaluations) <= 1
              /\ IF evaluations # {}
                 THEN /\ Len(eval_scores') = Len(eval_scores) + 1
                      /\ SubSeq(eval_scores', 1, Len(eval_scores)) = eval_scores
                 ELSE eval_scores' = eval_scores]_vars

(* C21: whenever a second batch-size value is given, the Iterator is built    *)
(* with that value as its padded-size limit, whether or not CUDA is           *)
(* available, and every batch's (longest target x number of records) is       *)
(* within it, except a batch of one record.                                   *)
C21_PaddedLimitInForceWithoutAccelerator ==
    Len(pargs.batch_size) > 1
        => /\ pipe # None => pipe[1].padded_size = Some(pargs.batch_size[2])
           /\ batch # <<>>
               => (PaddedSizeFn(batch) <= pargs.batch_size[2] \/ Len(batch) = 1)

(* the case of C21 without CUDA: a second value is given, the Iterator has no *)
(* padded-size limit and cuts a batch of two records over the value           *)
C21_UncappedBatchOnCpu ==
    /\ Len(pargs.batch_size) > 1
    /\ ~CudaAvailable(pargs)
    /\ pipe # None
    /\ pipe[1].padded_size = None
    /\ Len(batch) = 2
    /\ PaddedSizeFn(batch) > pargs.batch_size[2]

(* C22: in an iteration of the loop the save check (try_save) runs only on a  *)
(* successful update, never on a buffering or failed step; when an            *)
(* evaluation is due its score is appended before the save check runs; and a  *)
(* checkpoint written at global step S holds the score list with the score    *)
(* of the evaluation run at step S as its last element.                       *)
C22_ScoreRecordedBeforeSaveCheck ==
    [][pc = "loop"
       => LET saves == {i \in 1..Len(trace') : trace'[i][1] = "try_save"}
              adds  == {i \in 1..Len(trace') : trace'[i][1] = "add_valid_score"}
          IN  /\ saves # {}
                   => (/\ optSteps' = optSteps + 1
                       /\ step' = step + 1
                       /\ last'.update_params
                       /\ ~last'.overflow)
              /\ \A i \in adds : \A j \in saves : i < j
              /\ ckpt' # ckpt => \E j \in saves : trace'[j][2] = 1
              /\ \A j \in saves : trace'[j][2] = 1
                   => (/\ ckpt' # None
                       /\ ckpt'[1].step = step'
                       /\ ckpt'[1].eval_scores = eval_scores'
                       /\ \A i \in adds :
                            /\ ckpt'[1].eval_scores # <<>>
                            /\ ckpt'[1].eval_scores[Len(ckpt'[1].eval_scores)]
                                   = trace'[i][2])]_vars

(* the case of C22 in a run without failures: an update at a step where an    *)
(* evaluation is due has appended the score and then written the checkpoint   *)
C22_SavedWithScore ==
    /\ pc = "loop"
    /\ ~last.overflow
    /\ Len(trace) >= 2
    /\ trace[Len(trace) - 1][1] = "add_valid_score"
    /\ trace[Len(trace)] = <<"try_save", 1, 0>>
    /\ ckpt # None
    /\ ckpt[1].step = step
    /\ ckpt[1].eval_scores = eval_scores
    /\ eval_scores # <<>>

(* the OOM flags of a buffered entry, and of a window of entries *)
OomCount(e) == e.oom_fwd + e.oom_bwd
WindowOomCount(stats) == SumSeq([i \in 1..Len(stats) |-> OomCount(stats[i])])

(* C23: no buffered micro-batch entry has both its OOM-forward and its        *)
(* OOM-backward flag set: an entry with the forward flag comes from a call    *)
(* whose loss was null and whose backward pass was skipped, every entry has   *)
(* oom_fwd + oom_bwd <= 1, and the OOM count of a window is at most the       *)
(* number of micro-batches in it.                                             *)
C23_AtMostOneOomPerEntry ==
    /\ \A i \in 1..Len(buffered) : OomCount(buffered[i]) <= 1
    /\ \A i \in 1..Len(last.window) : OomCount(last.window[i]) <= 1
    /\ WindowOomCount(buffered) <= Len(buffered)
    /\ WindowOomCount(last.window) <= Len(last.window)
    /\ (last.op = "train_step" /\ last.entry # None)
        => (/\ OomCount(last.entry[1]) <= 1
            /\ last.entry[1].oom_fwd = 1 => (last.loss = None /\ ~last.backward)
            /\ last.entry[1].oom_bwd = 1 => (last.loss # None /\ last.backward))

(* the case of C23: an update call gathered a window of two entries, the      *)
(* first with a forward OOM and the second with a backward OOM                *)
C23_Witness ==
    /\ last.op = "train_step"
    /\ last.update_params
    /\ Len(last.window) = 2
    /\ last.window[1].oom_fwd = 1
    /\ last.window[1].oom_bwd = 0
    /\ last.window[2].oom_fwd = 0
    /\ last.window[2].oom_bwd = 1
    /\ WindowOomCount(last.window) = 2
    /\ last.backward

====
